---- MODULE Spec2Model ----
(***************************************************************************)
(* Asynchronous credential / key-cache coordination of seegg/Utilities.   *)
(*                                                                         *)
(*   AuthSocket   src/util/authSocket.ts and src/unnamed/part_000          *)
(*   Auth0Client  src/util/auth0Client.ts                                  *)
(*   parseObjPropertyNames  src/util/parsePropertyNames.ts                 *)
(*                                                                         *)
(* Every async function is cut at its await expressions: one action is the *)
(* synchronous run of one task from one suspension point to the next.      *)
(* SpecSocket is the state machine of one AuthSocket and its callers,      *)
(* SpecKeys the state machine of one Auth0Client and its callers,          *)
(* SpecRebuild that of SpecKeys with direct calls of updateKeyCache(),     *)
(* SpecVerify that of concurrent calls of verifyAccessToken(). SpecParse   *)
(* applies parseObjPropertyNames (src/util/parsePropertyNames.ts) to the   *)
(* objects nested up to MaxDepth.                                          *)
(***************************************************************************)
EXTENDS Integers, FiniteSets, Sequences, TLC

(* ------------------------------ bounds -------------------------------- *)

\* Number of authConnect / authEmit calls made on the AuthSocket, one per task;
\* the tasks are numbered in the order of their calls.
NumCallers == 3
\* Last value of the clock in SpecSocket.
MaxTime == 2
\* Number of tokens the token source can hand out.
MaxTokens == 2

\* Number of getSigningKey / updateKeyCacheIfStale calls made on the
\* Auth0Client, one per task, numbered in the order of the calls.
NumClients == 3
\* Last value of the clock in SpecKeys.
MaxKeyTime == 4

Callers == 1 .. NumCallers
Clients == 1 .. NumClients

\* null for credentialRefreshLock / socketEmitLock; a lock is named by the
\* caller whose promiseLock() call created it.
NoLock == 0

(* ----------------------------- constants ------------------------------ *)

\* refreshThreshold given to the constructor, in clock units.
credentialRefreshThreshold == 2

\* Lifetimes (expiry - now) of the tokens the source hands out: one inside
\* the threshold, one outside of it.
TokenLifetimes == {credentialRefreshThreshold - 1, credentialRefreshThreshold + 1}

\* options.cacheTime given to the Auth0Client constructor, in clock units.
cacheTime == 1

\* The two versions of the AuthSocket class in the repository.
SourceFiles == {"authSocket.ts", "part_000"}

VARIABLES
  srcFile,                \* which version of the class runs
  now,                    \* new Date().getTime()
  authenticated,          \* authService.userIsAuthenticated()
  srcToken,               \* authService.getAccessToken() (tokens are numbered)
  srcExp,                 \* authService.getTokenExpireTime()
  authToken,              \* socketClientInstance.auth.token, 0 when unset
  credentialsExpiresAt,
  credentialRefreshLock,
  refreshWaiters,         \* tasks awaiting credentialRefreshLock.lock, in order
  socketEmitLock,
  emitUnlocked,           \* emit locks whose promise is resolved
  emitWaiters,            \* tasks awaiting a socketEmitLock.lock, in order
  connectListeners,       \* emit locks whose unlock is registered once('connect')
  connState,              \* state of the socket.io client
  connToken,              \* auth token the current connection was opened with
  caller,                 \* per task: position in authConnect / authEmit
  ready,                  \* queue of continuations that are ready to run
  refreshCalls,           \* history: silentTokenRefresh calls since srcToken changed
  everFailed,             \* history: some silentTokenRefresh rejected
  everShort               \* history: some token was issued inside the threshold

VARIABLES
  resolveInScope,         \* whether `resolve` is bound inside the catch block
  ignoreExpiration,       \* option of the constructor
  JWKS,                   \* Map<kid, public key>
  lastUpdatedAt,
  deferJWKRequest,        \* null, or the promise named by the task that made it
  deferWaiters,           \* tasks awaiting a deferJWKRequest promise, in order
  client,                 \* per task: position in its call on the Auth0Client
  fetchCalls,             \* history: getJwks requests since the last rebuild
  everFetchFailed         \* history: some rebuild threw

VARIABLES
  obj,                    \* argument of parseObjPropertyNames
  concatenator,           \* argument of parseObjPropertyNames
  output                  \* what parseObjPropertyNames returned

VARIABLES
  currentHeight,          \* translateY of the drawer: 0 is fully open
  heightInitial,          \* currentHeight at the start of the gesture
  gestureDy,              \* dy of the gesture so far
  gesture,                \* "none", or "granted" once the pan responder is granted
  animation,              \* toValue of the running Animated.timing, NoAnimation if none
  drawerState,
  notified                \* history: the events the listeners were called for

VARIABLES
  permissionStatus,       \* state.location.permissionStatus of the store
  shouldOpenSettings,     \* shouldOpenSettings.current
  isSubscribeToLocationUpdates,
  mounted,                \* the component that uses the hook is mounted
  effects,                \* runs of the subscription effect, in order
  pendingRequests,        \* requestForegroundPermissionsAsync calls not settled
  pendingGets,            \* getForegroundPermissionsAsync calls not settled
  appStateListeners,      \* AppState 'change' listeners added and not removed
  settingsOpened,         \* history: Linking.openSettings() calls
  requestCalls,           \* history: requestLocationPermission calls
  everRefused             \* history: a request returned !granted && !canAskAgain

sourceVars == <<authenticated, srcToken, srcExp>>
credentialVars == <<authToken, credentialsExpiresAt>>
refreshLockVars == <<credentialRefreshLock, refreshWaiters>>
emitLockVars == <<socketEmitLock, emitUnlocked, emitWaiters, connectListeners>>
connVars == <<connState, connToken>>
historyVars == <<refreshCalls, everFailed, everShort>>

\* The state of the AuthSocket and its callers, clock and queue apart.
socketState == <<srcFile, sourceVars, credentialVars, refreshLockVars,
                 emitLockVars, connVars, caller, historyVars>>

cacheVars == <<JWKS, lastUpdatedAt>>
deferVars == <<deferJWKRequest, deferWaiters>>
keyHistoryVars == <<fetchCalls, everFetchFailed>>

\* What the build and the constructor fix for good.
constructed == <<resolveInScope, ignoreExpiration>>

keyVars == <<constructed, cacheVars, deferVars, client, keyHistoryVars>>

parseVars == <<obj, concatenator, output>>

drawerVars == <<currentHeight, heightInitial, gestureDy, gesture, animation,
                drawerState, notified>>

locationVars == <<permissionStatus, shouldOpenSettings, isSubscribeToLocationUpdates,
                  mounted, effects, pendingRequests, pendingGets, appStateListeners,
                  settingsOpened, requestCalls, everRefused>>

\* The state of the components and hooks.
uiVars == <<drawerVars, locationVars>>

vars == <<now, ready, socketState, keyVars, parseVars, uiVars>>

(* ======================= AuthSocket: helpers ========================== *)

IdleCaller == [pc |-> "idle", kind |-> "none", wait |-> NoLock, tok0 |-> 0,
               joinedFailed |-> FALSE, res |-> "none"]

\* A task whose call has returned or thrown res; each task makes one call.
Finished(res) == [IdleCaller EXCEPT !.pc = "done", !.res = res]

\* The catch block around silentTokenRefresh exists in part_000 only.
HasTryCatch == srcFile = "part_000"

\* socketEmitLock exists in authSocket.ts only.
HasEmitLock == srcFile = "authSocket.ts"

RefreshLockHeld_Ignored == FALSE

\* `if (this.credentialRefreshLock)` at the top of _refreshCredentialsIfNecessary.
RefreshLockHeld == credentialRefreshLock # NoLock

credentialsInSync_Never == FALSE

\* First condition: local credential inside tolerance and equal to the source's.
credentialsInSync ==
  /\ credentialsExpiresAt - now >= credentialRefreshThreshold
  /\ credentialsExpiresAt = srcExp

sourceNearExpiry_Always == TRUE

\* Second condition: the source's token is about to expire.
sourceNearExpiry == srcExp - now < credentialRefreshThreshold

\* promiseLock() is created only when the field is null.
lockAfterAcquire(p) ==
  IF credentialRefreshLock = NoLock THEN p ELSE credentialRefreshLock

addCredentials_TokenOnly ==
  /\ authToken' = srcToken
  /\ UNCHANGED credentialsExpiresAt

\* _addCredentials
addCredentials ==
  /\ authToken' = srcToken
  /\ credentialsExpiresAt' = srcExp

\* The task whose continuation runs next.
Runs(p) == ready # <<>> /\ Head(ready) = p

\* The tasks that `credentialRefreshLock?.unlock()` resumes, in order.
unlockedBy(l) == SelectSeq(refreshWaiters, LAMBDA q : l # NoLock /\ caller[q].wait = l)

\* The tasks still awaiting after that unlock.
stillWaiting(l) == SelectSeq(refreshWaiters, LAMBDA q : ~(l # NoLock /\ caller[q].wait = l))

\* Records after unlock() of refresh lock l: its waiters are resumed.
unlockedCallers(l, c) ==
  [q \in Callers |->
     IF l # NoLock /\ c[q].pc = "awaitLock" /\ c[q].wait = l
     THEN [c[q] EXCEPT !.pc = "woken", !.wait = NoLock]
     ELSE c[q]]

refreshCheck_InstallReturnsFalse(p, rec, rest) ==
  IF credentialsInSync
  THEN /\ caller' = [caller EXCEPT ![p] = [rec EXCEPT !.pc = "retFalse"]]
       /\ ready' = Append(rest, p)
       /\ UNCHANGED <<credentialVars, credentialRefreshLock, refreshCalls>>
  ELSE IF sourceNearExpiry
  THEN /\ credentialRefreshLock' = lockAfterAcquire(p)
       /\ caller' = [caller EXCEPT ![p] = [rec EXCEPT !.pc = "refreshing"]]
       /\ ready' = rest
       /\ refreshCalls' = refreshCalls + 1
       /\ UNCHANGED credentialVars
  ELSE /\ addCredentials
       /\ caller' = [caller EXCEPT ![p] = [rec EXCEPT !.pc = "retFalse"]]
       /\ ready' = Append(rest, p)
       /\ UNCHANGED <<credentialRefreshLock, refreshCalls>>

\* Body of _refreshCredentialsIfNecessary from `const currentTime` to the
\* next await or return, run by task p whose record becomes rec; rest is the
\* queue of the other ready continuations.
refreshCheck(p, rec, rest) ==
  IF credentialsInSync
  THEN /\ caller' = [caller EXCEPT ![p] = [rec EXCEPT !.pc = "retFalse"]]
       /\ ready' = Append(rest, p)
       /\ UNCHANGED <<credentialVars, credentialRefreshLock, refreshCalls>>
  ELSE IF sourceNearExpiry
  THEN /\ credentialRefreshLock' = lockAfterAcquire(p)
       /\ caller' = [caller EXCEPT ![p] = [rec EXCEPT !.pc = "refreshing"]]
       /\ ready' = rest
       /\ refreshCalls' = refreshCalls + 1
       /\ UNCHANGED credentialVars
  ELSE /\ addCredentials
       /\ caller' = [caller EXCEPT ![p] = [rec EXCEPT !.pc = "retTrue"]]
       /\ ready' = Append(rest, p)
       /\ UNCHANGED <<credentialRefreshLock, refreshCalls>>

userIsAuthenticated_Always == TRUE

\* authService.userIsAuthenticated()
userIsAuthenticated == authenticated

\* _authConnect / _authEmit from the call to the first await.
authCall(p, kind) ==
  /\ caller[p].pc = "idle"
  /\ \A q \in Callers : q < p => caller[q].pc # "idle"
  /\ IF ~userIsAuthenticated
     THEN /\ caller' = [caller EXCEPT ![p] = Finished("AuthorizationError")]
          /\ UNCHANGED <<credentialVars, refreshLockVars, ready, refreshCalls>>
     ELSE LET rec == [IdleCaller EXCEPT
                        !.kind = kind,
                        !.tok0 = IF sourceNearExpiry THEN srcToken ELSE 0]
          IN IF RefreshLockHeld
             THEN /\ caller' = [caller EXCEPT ![p] =
                                  [rec EXCEPT !.pc = "awaitLock",
                                              !.wait = credentialRefreshLock]]
                  /\ refreshWaiters' = Append(refreshWaiters, p)
                  /\ UNCHANGED <<credentialVars, credentialRefreshLock, ready,
                                 refreshCalls>>
             ELSE /\ refreshCheck(p, rec, ready)
                  /\ UNCHANGED refreshWaiters
  /\ UNCHANGED <<uiVars, parseVars, keyVars, srcFile, now, sourceVars, emitLockVars, connVars, everFailed,
                 everShort>>

(* ======================= AuthSocket: actions ========================== *)

authConnect(p) == authCall(p, "connect")

authEmit(p) == authCall(p, "emit")

\* A task resumes after `await this.credentialRefreshLock.lock`.
resumeAfterLock(p) ==
  /\ Runs(p)
  /\ caller[p].pc = "woken"
  /\ refreshCheck(p, caller[p], Tail(ready))
  /\ UNCHANGED <<uiVars, parseVars, keyVars, srcFile, now, sourceVars, refreshWaiters, emitLockVars,
                 connVars, everFailed, everShort>>

\* authService.silentTokenRefresh() fulfils: the source holds a new token.
silentTokenRefreshResolves(p, life) ==
  /\ caller[p].pc = "refreshing"
  /\ srcToken < MaxTokens
  /\ srcToken' = srcToken + 1
  /\ srcExp' = now + life
  /\ refreshCalls' = 0
  /\ everShort' = (everShort \/ life < credentialRefreshThreshold)
  /\ caller' = [caller EXCEPT ![p].pc = "settledOk"]
  /\ ready' = Append(ready, p)
  /\ UNCHANGED <<uiVars, parseVars, keyVars, srcFile, now, authenticated, credentialVars, refreshLockVars,
                 emitLockVars, connVars, everFailed>>

\* authService.silentTokenRefresh() rejects.
silentTokenRefreshRejects(p) ==
  /\ caller[p].pc = "refreshing"
  /\ everFailed' = TRUE
  /\ caller' = [caller EXCEPT ![p].pc = "settledErr"]
  /\ ready' = Append(ready, p)
  /\ UNCHANGED <<uiVars, parseVars, keyVars, srcFile, now, sourceVars, credentialVars, refreshLockVars,
                 emitLockVars, connVars, refreshCalls, everShort>>

\* Continuation after a fulfilled `await silentTokenRefresh()`:
\* unlock, reset the lock, _addCredentials, return true.
refreshSucceeded(p) ==
  /\ Runs(p)
  /\ caller[p].pc = "settledOk"
  /\ credentialRefreshLock' = NoLock
  /\ refreshWaiters' = stillWaiting(credentialRefreshLock)
  /\ addCredentials
  /\ caller' = [unlockedCallers(credentialRefreshLock, caller)
                  EXCEPT ![p].pc = "retTrue"]
  /\ ready' = Append(Tail(ready) \o unlockedBy(credentialRefreshLock), p)
  /\ UNCHANGED <<uiVars, parseVars, keyVars, srcFile, now, sourceVars, emitLockVars, connVars, historyVars>>

\* Tasks that were awaiting the lock created by p when p's refresh rejected.
markJoined(p, c) ==
  [q \in Callers |->
     IF c[q].pc = "awaitLock" /\ c[q].wait = p
     THEN [c[q] EXCEPT !.joinedFailed = TRUE] ELSE c[q]]

catchUnlocks_AddsCredentials(p) ==
  /\ addCredentials
  /\ credentialRefreshLock' = NoLock
  /\ refreshWaiters' = stillWaiting(credentialRefreshLock)
  /\ caller' = [unlockedCallers(credentialRefreshLock, markJoined(p, caller))
                  EXCEPT ![p] = Finished("RefreshFailure")]
  /\ ready' = Tail(ready) \o unlockedBy(credentialRefreshLock)

\* The catch block of part_000: unlock, reset the lock, rethrow.
catchUnlocks(p) ==
  /\ UNCHANGED credentialVars
  /\ credentialRefreshLock' = NoLock
  /\ refreshWaiters' = stillWaiting(credentialRefreshLock)
  /\ caller' = [unlockedCallers(credentialRefreshLock, markJoined(p, caller))
                  EXCEPT ![p] = Finished("RefreshFailure")]
  /\ ready' = Tail(ready) \o unlockedBy(credentialRefreshLock)

\* authSocket.ts has no catch block: the rejection leaves the function at once.
rejectionEscapes(p) ==
  /\ UNCHANGED credentialVars
  /\ UNCHANGED refreshLockVars
  /\ caller' = [markJoined(p, caller) EXCEPT ![p] = Finished("RefreshFailure")]
  /\ ready' = Tail(ready)

\* Continuation after a rejected `await silentTokenRefresh()`.
refreshFailed(p) ==
  /\ Runs(p)
  /\ caller[p].pc = "settledErr"
  /\ IF HasTryCatch THEN catchUnlocks(p) ELSE rejectionEscapes(p)
  /\ UNCHANGED <<uiVars, parseVars, keyVars, srcFile, now, sourceVars, emitLockVars, connVars, historyVars>>

\* socketClientInstance.connect(): a no-op unless the socket is disconnected.
connectSocket ==
  IF connState = "disconnected"
  THEN connState' = "connecting" /\ connToken' = authToken
  ELSE UNCHANGED connVars

\* socketClientInstance.disconnect().connect()
reconnectSocket ==
  /\ connState' = "connecting"
  /\ connToken' = authToken

\* _authConnect after `await this._refreshCredentialsIfNecessary()`.
connectAfterRefresh(p) ==
  /\ Runs(p)
  /\ caller[p].pc \in {"retTrue", "retFalse"}
  /\ caller[p].kind = "connect"
  /\ connectSocket
  /\ caller' = [caller EXCEPT ![p] = Finished("connect")]
  /\ ready' = Tail(ready)
  /\ UNCHANGED <<uiVars, parseVars, keyVars, srcFile, now, sourceVars, credentialVars, refreshLockVars,
                 emitLockVars, historyVars>>

\* _authEmit after `await this._refreshCredentialsIfNecessary()`, up to the
\* emit or to `await this.socketEmitLock.lock`.
emitAfterRefresh(p) ==
  /\ Runs(p)
  /\ caller[p].pc \in {"retTrue", "retFalse"}
  /\ caller[p].kind = "emit"
  /\ LET refreshed == caller[p].pc = "retTrue"
         newLock == refreshed /\ HasEmitLock
         lockNow == IF newLock THEN p ELSE socketEmitLock
     IN /\ IF refreshed THEN reconnectSocket ELSE UNCHANGED connVars
        /\ socketEmitLock' = lockNow
        /\ connectListeners' = IF newLock THEN Append(connectListeners, p)
                                          ELSE connectListeners
        /\ UNCHANGED emitUnlocked
        /\ IF lockNow = NoLock
           THEN /\ caller' = [caller EXCEPT ![p] = Finished("emit")]
                /\ ready' = Tail(ready)
                /\ UNCHANGED emitWaiters
           ELSE IF lockNow \in emitUnlocked
           THEN /\ caller' = [caller EXCEPT ![p].pc = "emitReady"]
                /\ ready' = Append(Tail(ready), p)
                /\ UNCHANGED emitWaiters
           ELSE /\ caller' = [caller EXCEPT ![p].pc = "awaitEmit",
                                            ![p].wait = lockNow]
                /\ ready' = Tail(ready)
                /\ emitWaiters' = Append(emitWaiters, p)
  /\ UNCHANGED <<uiVars, parseVars, keyVars, srcFile, now, sourceVars, credentialVars, refreshLockVars,
                 historyVars>>

\* _authEmit after `await this.socketEmitLock.lock`: reset the lock, emit.
emitAfterReconnect(p) ==
  /\ Runs(p)
  /\ caller[p].pc = "emitReady"
  /\ socketEmitLock' = NoLock
  /\ caller' = [caller EXCEPT ![p] = Finished("emit")]
  /\ ready' = Tail(ready)
  /\ UNCHANGED <<uiVars, parseVars, keyVars, srcFile, now, sourceVars, credentialVars, refreshLockVars,
                 emitUnlocked, emitWaiters, connectListeners, connVars,
                 historyVars>>

\* The waiters of the emit locks ls, lock by lock in the order of ls.
RECURSIVE resumedByConnect(_)
resumedByConnect(ls) ==
  IF ls = <<>> THEN <<>>
  ELSE SelectSeq(emitWaiters, LAMBDA q : caller[q].wait = Head(ls))
         \o resumedByConnect(Tail(ls))

\* The socket's 'connect' event: every once('connect') listener unlocks its lock.
connectEvent ==
  /\ connState = "connecting"
  /\ connState' = "connected"
  /\ emitUnlocked' = emitUnlocked \cup {connectListeners[i] : i \in DOMAIN connectListeners}
  /\ connectListeners' = <<>>
  /\ emitWaiters' = SelectSeq(emitWaiters,
                      LAMBDA q : \A i \in DOMAIN connectListeners :
                                    caller[q].wait # connectListeners[i])
  /\ caller' = [q \in Callers |->
       IF caller[q].pc = "awaitEmit"
          /\ \E i \in DOMAIN connectListeners : caller[q].wait = connectListeners[i]
       THEN [caller[q] EXCEPT !.pc = "emitReady", !.wait = NoLock]
       ELSE caller[q]]
  /\ ready' = ready \o resumedByConnect(connectListeners)
  /\ UNCHANGED <<uiVars, parseVars, keyVars, srcFile, now, sourceVars, credentialVars, refreshLockVars,
                 socketEmitLock, connToken, historyVars>>

\* The application refreshes its token on its own, outside of the socket; its
\* refresh completes as an event of its own, once no continuation is queued.
sourceRotatesToken(life) ==
  /\ authenticated
  /\ ready = <<>>
  /\ srcToken < MaxTokens
  /\ srcToken' = srcToken + 1
  /\ srcExp' = now + life
  /\ refreshCalls' = 0
  /\ everShort' = (everShort \/ life < credentialRefreshThreshold)
  /\ UNCHANGED <<uiVars, parseVars, keyVars, srcFile, now, authenticated, credentialVars, refreshLockVars,
                 emitLockVars, connVars, caller, ready, everFailed>>

\* The user's session ends: userIsAuthenticated() answers false from now on.
userLogsOut ==
  /\ authenticated
  /\ authenticated' = FALSE
  /\ UNCHANGED <<uiVars, parseVars, keyVars, srcFile, now, srcToken, srcExp, credentialVars,
                 refreshLockVars, emitLockVars, connVars, caller, ready,
                 historyVars>>

\* The clock advances once no continuation is queued.
tick ==
  /\ now < MaxTime
  /\ ready = <<>>
  /\ now' = now + 1
  /\ UNCHANGED <<uiVars, parseVars, keyVars, srcFile, sourceVars, credentialVars, refreshLockVars,
                 emitLockVars, connVars, caller, ready, historyVars>>

(* ======================= Auth0Client: helpers ========================= *)

Kids == {"a", "b"}

\* Key descriptors of the JWKS endpoint ("" and <<>> stand for an absent field).
KeyA == [use |-> "sig", kty |-> "RSA", kid |-> "a", x5c |-> <<"certA">>, n |-> "", e |-> ""]
KeyB == [use |-> "sig", kty |-> "RSA", kid |-> "b", x5c |-> <<"certB">>, n |-> "", e |-> ""]
EncKey == [use |-> "enc", kty |-> "RSA", kid |-> "b", x5c |-> <<"certE">>, n |-> "", e |-> ""]
ModExpKey == [use |-> "sig", kty |-> "RSA", kid |-> "b", x5c |-> <<>>, n |-> "mod", e |-> "exp"]

NoResponse == [kind |-> "none", statusCode |-> 0, hasKeys |-> FALSE, keys |-> <<>>]

\* The request is rejected (timeout, network error).
TransportError == [NoResponse EXCEPT !.kind = "error"]

\* A response with its status code and body.keys.
Response(code, hasKeys, keys) ==
  [kind |-> "response", statusCode |-> code, hasKeys |-> hasKeys, keys |-> keys]

\* Outcomes of the request of getJwks.
Responses ==
  { TransportError,
    Response(500, FALSE, <<>>),
    Response(200, TRUE, <<KeyA, KeyB>>),
    Response(200, TRUE, <<KeyB, EncKey>>),
    Response(200, TRUE, <<KeyA, ModExpKey>>),
    Response(200, FALSE, <<>>) }

\* A JWT by what jwtService reads from it: whether it decodes, the kid of its
\* header ("" for none), the certificate whose key signed it, whether its
\* exp has passed.
Jwt(name, decodes, kid, signedBy, expired) ==
  [name |-> name, decodes |-> decodes, kid |-> kid, signedBy |-> signedBy,
   expired |-> expired]

\* No token: the call is not a verifyAccessToken.
NoToken == Jwt("none", FALSE, "", "", FALSE)

Garbage == Jwt("garbage", FALSE, "", "", FALSE)
NoKidToken == Jwt("nokid", TRUE, "", "certA", FALSE)
TokenA == Jwt("good", TRUE, "a", "certA", FALSE)
ExpiredA == Jwt("expired", TRUE, "a", "certA", TRUE)
ForgedA == Jwt("forged", TRUE, "a", "certX", FALSE)
TokenB == Jwt("goodB", TRUE, "b", "certB", FALSE)

\* Arguments of verifyAccessToken.
Tokens == {Garbage, NoKidToken, TokenA, ExpiredA, ForgedA, TokenB}

IdleClient == [pc |-> "idle", op |-> "none", kid |-> "", wait |-> NoLock,
               lu0 |-> -1, joinedFailed |-> FALSE, res |-> "none",
               resp |-> NoResponse, token |-> NoToken, publicKey |-> <<>>,
               verifyErrors |-> "null"]

\* A task whose call has returned or thrown res.
Returned(res) == [IdleClient EXCEPT !.pc = "done", !.res = res]

DeferPending_Ignored == FALSE

\* `if (this.deferJWKRequest)` in getSigningKey and updateKeyCacheIfStale.
DeferPending == deferJWKRequest # NoLock

cacheIsStale_AtBoundary == now - lastUpdatedAt >= cacheTime

\* cacheIsStale
cacheIsStale == now - lastUpdatedAt > cacheTime

statusIsError_Ignored(code) == FALSE

\* getJwks: `res.statusCode < 200 || res.statusCode >= 300`
statusIsError(code) == code < 200 \/ code >= 300

\* getJwks throws: the request rejected, or the status is outside 2xx.
getJwksThrows(resp) == resp.kind = "error" \/ statusIsError(resp.statusCode)

\* certToPEM for a certificate shorter than one line of 64 characters.
certToPEM(cert) == <<"-----BEGIN CERTIFICATE-----", cert, "-----END CERTIFICATE-----">>

\* The condition of updateKeyCache under which a descriptor is stored.
keyIsUsable(key) ==
  /\ key.use = "sig"
  /\ key.kty = "RSA"
  /\ key.kid # ""
  /\ (key.x5c # <<>> \/ (key.n # "" /\ key.e # ""))

\* Map.set
mapSet(m, k, v) == [x \in DOMAIN m \cup {k} |-> IF x = k THEN v ELSE m[x]]

\* keys.forEach of updateKeyCache over the map m: the map it leaves and
\* whether it threw (certToPEM of a missing x5c[0] throws a TypeError).
RECURSIVE storeKeys(_, _)
storeKeys(keys, m) ==
  IF keys = <<>> THEN [map |-> m, threw |-> FALSE]
  ELSE LET key == Head(keys)
       IN IF keyIsUsable(key)
          THEN IF key.x5c = <<>>
               THEN [map |-> m, threw |-> TRUE]
               ELSE storeKeys(Tail(keys), mapSet(m, key.kid, certToPEM(key.x5c[1])))
          ELSE storeKeys(Tail(keys), m)

rebuilt_Merges(resp) ==
  IF resp.hasKeys THEN storeKeys(resp.keys, JWKS)
  ELSE [map |-> JWKS, threw |-> TRUE]

\* updateKeyCache after `await this.getJwks()` returned body.keys: clear, then
\* forEach (keys.forEach throws when body.keys is undefined).
rebuilt(resp) ==
  IF resp.hasKeys THEN storeKeys(resp.keys, <<>>)
  ELSE [map |-> <<>>, threw |-> TRUE]

\* The tasks awaiting promise d, in order.
awaitingDefer(d) == SelectSeq(deferWaiters, LAMBDA q : client[q].wait = d)

\* The tasks awaiting another promise.
awaitingOther(d) == SelectSeq(deferWaiters, LAMBDA q : client[q].wait # d)

\* Records after resolve() of promise d: its waiters are resumed.
resolvedClients(d, c) ==
  [q \in Clients |->
     IF c[q].pc \in {"awaitA", "awaitB"} /\ c[q].wait = d
     THEN [c[q] EXCEPT !.pc = IF c[q].pc = "awaitA" THEN "wokeA" ELSE "wokeB",
                       !.wait = NoLock]
     ELSE c[q]]

\* Records once promise d can no longer be resolved: its waiters stay
\* suspended for good.
orphanedClients(d, c) ==
  [q \in Clients |->
     IF c[q].pc \in {"awaitA", "awaitB"} /\ c[q].wait = d
     THEN [c[q] EXCEPT !.pc = "orphaned"]
     ELSE c[q]]

\* Tasks that were awaiting the promise of p when the fetch of p failed.
markJoinedRebuild(p, c) ==
  [q \in Clients |->
     IF c[q].pc \in {"awaitA", "awaitB"} /\ c[q].wait = p
        /\ getJwksThrows(c[p].resp)
     THEN [c[q] EXCEPT !.joinedFailed = TRUE] ELSE c[q]]

\* updateKeyCacheIfStale has returned to task p whose record is rec:
\* getSigningKey goes on after its await, a direct call is over.
staleCheckReturns(p, rec, rest) ==
  IF rec.op = "getSigningKey"
  THEN /\ client' = [client EXCEPT ![p] = [rec EXCEPT !.pc = "staleRet"]]
       /\ ready' = Append(rest, p)
  ELSE /\ client' = [client EXCEPT ![p] = Returned("returned")]
       /\ ready' = rest

\* updateKeyCacheIfStale from `if (this.cacheIsStale())` to the request of
\* getJwks or to the return.
staleCheck(p, rec, rest) ==
  IF cacheIsStale
  THEN /\ deferJWKRequest' = p
       /\ client' = [client EXCEPT ![p] = [rec EXCEPT !.pc = "fetching"]]
       /\ ready' = rest
       /\ fetchCalls' = fetchCalls + 1
  ELSE /\ staleCheckReturns(p, rec, rest)
       /\ UNCHANGED <<deferJWKRequest, fetchCalls>>

\* updateKeyCacheIfStale from its first line, run by task p.
updateIfStaleEntry(p, rec, rest) ==
  IF DeferPending
  THEN /\ client' = [client EXCEPT ![p] =
                       [rec EXCEPT !.pc = "awaitB", !.wait = deferJWKRequest]]
       /\ deferWaiters' = Append(deferWaiters, p)
       /\ ready' = rest
       /\ UNCHANGED <<deferJWKRequest, fetchCalls>>
  ELSE /\ staleCheck(p, rec, rest)
       /\ UNCHANGED deferWaiters

\* The record of a call that starts now.
started(op, kid) ==
  [IdleClient EXCEPT !.op = op, !.kid = kid,
                     !.lu0 = IF cacheIsStale THEN lastUpdatedAt ELSE -1]

CanStart(p) ==
  /\ client[p].pc = "idle"
  /\ \A q \in Clients : q < p => client[q].pc # "idle"

(* ======================= Auth0Client: actions ========================= *)

\* getSigningKey(kid) from the call to its first await.
getSigningKey(p, kid) ==
  /\ CanStart(p)
  /\ IF DeferPending
     THEN /\ client' = [client EXCEPT ![p] =
                          [started("getSigningKey", kid) EXCEPT
                             !.pc = "awaitA", !.wait = deferJWKRequest]]
          /\ deferWaiters' = Append(deferWaiters, p)
          /\ UNCHANGED <<deferJWKRequest, fetchCalls, ready>>
     ELSE updateIfStaleEntry(p, started("getSigningKey", kid), ready)
  /\ UNCHANGED <<uiVars, parseVars, socketState, constructed, now, cacheVars, everFetchFailed>>

\* A direct call of updateKeyCacheIfStale().
updateKeyCacheIfStale(p) ==
  /\ CanStart(p)
  /\ updateIfStaleEntry(p, started("updateKeyCacheIfStale", ""), ready)
  /\ UNCHANGED <<uiVars, parseVars, socketState, constructed, now, cacheVars, everFetchFailed>>

\* getSigningKey resumes after `await this.deferJWKRequest` and calls
\* updateKeyCacheIfStale.
resumeGetSigningKey(p) ==
  /\ Runs(p)
  /\ client[p].pc = "wokeA"
  /\ updateIfStaleEntry(p, client[p], Tail(ready))
  /\ UNCHANGED <<uiVars, parseVars, socketState, constructed, now, cacheVars, everFetchFailed>>

\* updateKeyCacheIfStale resumes after `await this.deferJWKRequest`.
resumeUpdateIfStale(p) ==
  /\ Runs(p)
  /\ client[p].pc = "wokeB"
  /\ staleCheck(p, client[p], Tail(ready))
  /\ UNCHANGED <<uiVars, parseVars, socketState, constructed, now, cacheVars, deferWaiters, everFetchFailed>>

\* The request of getJwks settles with resp.
requestSettles(p, resp) ==
  /\ client[p].pc = "fetching"
  /\ client' = [client EXCEPT ![p].pc = "fetched", ![p].resp = resp]
  /\ ready' = Append(ready, p)
  /\ UNCHANGED <<uiVars, parseVars, socketState, constructed, now, cacheVars, deferVars, keyHistoryVars>>

\* What the rebuild threw.
thrownBy(resp) == IF getJwksThrows(resp) THEN "FetchError" ELSE "TypeError"

\* A direct call of updateKeyCache(): it requests the keys at once, without
\* reading or writing deferJWKRequest.
callUpdateKeyCache(p) ==
  /\ CanStart(p)
  /\ client' = [client EXCEPT ![p] =
                  [started("updateKeyCache", "") EXCEPT !.pc = "fetching"]]
  /\ fetchCalls' = fetchCalls + 1
  /\ UNCHANGED <<uiVars, parseVars, socketState, constructed, now, ready, cacheVars, deferVars,
                 everFetchFailed>>

\* updateKeyCache is over for task p: inside updateKeyCacheIfStale the task
\* goes on after `await this.updateKeyCache()`, a direct call is over.
rebuildEnds(p, threw) ==
  IF client[p].op = "updateKeyCache"
  THEN /\ client' = [client EXCEPT ![p] =
                       Returned(IF threw THEN thrownBy(client[p].resp)
                                         ELSE "returned")]
       /\ ready' = Tail(ready)
  ELSE /\ client' = [client EXCEPT ![p].pc = IF threw THEN "rejected"
                                                       ELSE "updated"]
       /\ ready' = Append(Tail(ready), p)

updateKeyCache_StampsFirst(p) ==
  /\ Runs(p)
  /\ client[p].pc = "fetched"
  /\ IF getJwksThrows(client[p].resp)
     THEN /\ rebuildEnds(p, TRUE)
          /\ everFetchFailed' = TRUE
          /\ UNCHANGED <<cacheVars, fetchCalls>>
     ELSE LET r == rebuilt(client[p].resp)
          IN /\ lastUpdatedAt' = now
             /\ JWKS' = r.map
             /\ IF r.threw
                THEN /\ rebuildEnds(p, TRUE)
                     /\ everFetchFailed' = TRUE
                     /\ UNCHANGED fetchCalls
                ELSE /\ rebuildEnds(p, FALSE)
                     /\ fetchCalls' = 0
                     /\ UNCHANGED everFetchFailed
  /\ UNCHANGED <<uiVars, parseVars, socketState, constructed, now, deferVars>>

\* getJwks after its await and updateKeyCache after `await this.getJwks()`.
updateKeyCache(p) ==
  /\ Runs(p)
  /\ client[p].pc = "fetched"
  /\ IF getJwksThrows(client[p].resp)
     THEN /\ rebuildEnds(p, TRUE)
          /\ everFetchFailed' = TRUE
          /\ UNCHANGED <<cacheVars, fetchCalls>>
     ELSE LET r == rebuilt(client[p].resp)
          IN /\ JWKS' = r.map
             /\ IF r.threw
                THEN /\ rebuildEnds(p, TRUE)
                     /\ everFetchFailed' = TRUE
                     /\ UNCHANGED <<lastUpdatedAt, fetchCalls>>
                ELSE /\ rebuildEnds(p, FALSE)
                     /\ lastUpdatedAt' = now
                     /\ fetchCalls' = 0
                     /\ UNCHANGED everFetchFailed
  /\ UNCHANGED <<uiVars, parseVars, socketState, constructed, now, deferVars>>

\* updateKeyCacheIfStale after `await this.updateKeyCache()` returned:
\* reset deferJWKRequest, resolve the promise, return.
releaseAfterRebuild(p) ==
  /\ Runs(p)
  /\ client[p].pc = "updated"
  /\ deferJWKRequest' = NoLock
  /\ deferWaiters' = awaitingOther(p)
  /\ LET c == resolvedClients(p, client)
         rest == Tail(ready) \o awaitingDefer(p)
     IN IF client[p].op = "getSigningKey"
        THEN /\ client' = [c EXCEPT ![p].pc = "staleRet"]
             /\ ready' = Append(rest, p)
        ELSE /\ client' = [c EXCEPT ![p] = Returned("returned")]
             /\ ready' = rest
  /\ UNCHANGED <<uiVars, parseVars, socketState, constructed, now, cacheVars, keyHistoryVars>>

\* The catch block with `resolve` bound: reset, resolve, rethrow.
catchResolves(p) ==
  /\ deferWaiters' = awaitingOther(p)
  /\ client' = [resolvedClients(p, markJoinedRebuild(p, client))
                  EXCEPT ![p] = Returned(thrownBy(client[p].resp))]
  /\ ready' = Tail(ready) \o awaitingDefer(p)

\* The catch block with `resolve` unbound (it is declared inside the try
\* block): reset, then `resolve()` throws a ReferenceError.
catchThrowsReferenceError(p) ==
  /\ deferWaiters' = awaitingOther(p)
  /\ client' = [orphanedClients(p, markJoinedRebuild(p, client))
                  EXCEPT ![p] = Returned("ReferenceError")]
  /\ ready' = Tail(ready)

catchAfterRebuild_KeepsDefer(p) ==
  /\ Runs(p)
  /\ client[p].pc = "rejected"
  /\ UNCHANGED deferJWKRequest
  /\ IF resolveInScope THEN catchResolves(p) ELSE catchThrowsReferenceError(p)
  /\ UNCHANGED <<uiVars, parseVars, socketState, constructed, now, cacheVars, keyHistoryVars>>

\* updateKeyCacheIfStale after `await this.updateKeyCache()` threw.
catchAfterRebuild(p) ==
  /\ Runs(p)
  /\ client[p].pc = "rejected"
  /\ deferJWKRequest' = NoLock
  /\ IF resolveInScope THEN catchResolves(p) ELSE catchThrowsReferenceError(p)
  /\ UNCHANGED <<uiVars, parseVars, socketState, constructed, now, cacheVars, keyHistoryVars>>

lookupKey_HandsOverMissingKey(p) ==
  /\ Runs(p)
  /\ client[p].pc = "staleRet"
  /\ IF client[p].token # NoToken
     THEN /\ client' = [client EXCEPT
                          ![p].pc = "keyRet",
                          ![p].publicKey = IF client[p].kid \in DOMAIN JWKS
                                           THEN JWKS[client[p].kid] ELSE <<"undefined">>]
          /\ ready' = Append(Tail(ready), p)
     ELSE /\ client' = [client EXCEPT ![p] =
               [Returned(IF client[p].kid \in DOMAIN JWKS THEN "key"
                                                          ELSE "NoSigningKey")
                  EXCEPT !.kid = client[p].kid]]
          /\ ready' = Tail(ready)
  /\ UNCHANGED <<uiVars, parseVars, socketState, constructed, now, cacheVars, deferVars, keyHistoryVars>>

lookupKey_RefetchesOnMiss(p) ==
  /\ Runs(p)
  /\ client[p].pc = "staleRet"
  /\ IF client[p].kid \in DOMAIN JWKS
     THEN /\ client' = [client EXCEPT ![p] =
                          [Returned("key") EXCEPT !.kid = client[p].kid]]
          /\ UNCHANGED <<deferVars, keyHistoryVars>>
     ELSE /\ client' = [client EXCEPT ![p].pc = "fetching"]
          /\ deferJWKRequest' = p
          /\ fetchCalls' = fetchCalls + 1
          /\ UNCHANGED <<deferWaiters, everFetchFailed>>
  /\ ready' = Tail(ready)
  /\ UNCHANGED <<uiVars, parseVars, socketState, constructed, now, cacheVars>>

\* getSigningKey after `await this.updateKeyCacheIfStale()`: the lookup. The
\* key goes to the caller, or to verifyAccessToken after its await; the
\* TypeError ends both.
lookupKey(p) ==
  /\ Runs(p)
  /\ client[p].pc = "staleRet"
  /\ IF client[p].kid \in DOMAIN JWKS /\ client[p].token # NoToken
     THEN /\ client' = [client EXCEPT ![p].pc = "keyRet",
                                      ![p].publicKey = JWKS[client[p].kid]]
          /\ ready' = Append(Tail(ready), p)
     ELSE /\ client' = [client EXCEPT ![p] =
               [Returned(IF client[p].kid \in DOMAIN JWKS THEN "key"
                                                          ELSE "NoSigningKey")
                  EXCEPT !.kid = client[p].kid, !.token = client[p].token]]
          /\ ready' = Tail(ready)
  /\ UNCHANGED <<uiVars, parseVars, socketState, constructed, now, cacheVars, deferVars, keyHistoryVars>>

\* jwtService.verify(token, publicKey, {ignoreExpiration}): the error handed
\* to the callback, "null" for none. The signature is checked before exp.
jwtVerify(token, publicKey, ignoreExp) ==
  IF publicKey # certToPEM(token.signedBy) THEN "JsonWebTokenError"
  ELSE IF token.expired /\ ~ignoreExp THEN "TokenExpiredError"
  ELSE "null"

\* verifyAccessToken(token) from the call to its first await: decode, then
\* getSigningKey(decodedToken.header.kid). decode returns null for a token
\* it cannot decode, and reading `.header` of null throws a TypeError.
verifyAccessToken(p, token) ==
  /\ CanStart(p)
  /\ IF ~token.decodes
     THEN /\ client' = [client EXCEPT ![p] =
                          [Returned("HeaderTypeError") EXCEPT !.token = token]]
          /\ UNCHANGED <<deferVars, fetchCalls, ready>>
     ELSE LET rec == [started("getSigningKey", token.kid) EXCEPT !.token = token]
          IN IF DeferPending
             THEN /\ client' = [client EXCEPT ![p] =
                                  [rec EXCEPT !.pc = "awaitA",
                                              !.wait = deferJWKRequest]]
                  /\ deferWaiters' = Append(deferWaiters, p)
                  /\ UNCHANGED <<deferJWKRequest, fetchCalls, ready>>
             ELSE updateIfStaleEntry(p, rec, ready)
  /\ UNCHANGED <<uiVars, parseVars, socketState, constructed, now, cacheVars, everFetchFailed>>

\* verifyAccessToken after `await this.getSigningKey(...)`: jwtService.verify
\* runs its callback, which resolves deferredPromise.
verifyToken(p) ==
  /\ Runs(p)
  /\ client[p].pc = "keyRet"
  /\ client' = [client EXCEPT
                  ![p].pc = "verified",
                  ![p].verifyErrors =
                     jwtVerify(client[p].token, client[p].publicKey, ignoreExpiration)]
  /\ ready' = Append(Tail(ready), p)
  /\ UNCHANGED <<uiVars, parseVars, socketState, constructed, now, cacheVars, deferVars, keyHistoryVars>>

verifyReturns_IgnoresErrors(p) ==
  /\ Runs(p)
  /\ client[p].pc = "verified"
  /\ client' = [client EXCEPT ![p].pc = "done", ![p].res = "payload"]
  /\ ready' = Tail(ready)
  /\ UNCHANGED <<uiVars, parseVars, socketState, constructed, now, cacheVars, deferVars, keyHistoryVars>>

\* verifyAccessToken after `await deferredPromise`: throw verifyErrors or
\* return tokenPayload.
verifyReturns(p) ==
  /\ Runs(p)
  /\ client[p].pc = "verified"
  /\ client' = [client EXCEPT
                  ![p].pc = "done",
                  ![p].res = IF client[p].verifyErrors # "null"
                             THEN client[p].verifyErrors ELSE "payload"]
  /\ ready' = Tail(ready)
  /\ UNCHANGED <<uiVars, parseVars, socketState, constructed, now, cacheVars, deferVars, keyHistoryVars>>

\* The clock advances once no continuation is queued.
keyTick ==
  /\ now < MaxKeyTime
  /\ ready = <<>>
  /\ now' = now + 1
  /\ UNCHANGED <<uiVars, parseVars, socketState, ready, keyVars>>

\* Neither class has been used.
SocketUnused ==
  /\ srcFile = "authSocket.ts"
  /\ authenticated = FALSE
  /\ srcToken = 1
  /\ srcExp = 0
  /\ authToken = 0
  /\ credentialsExpiresAt = 0
  /\ credentialRefreshLock = NoLock
  /\ refreshWaiters = <<>>
  /\ socketEmitLock = NoLock
  /\ emitUnlocked = {}
  /\ emitWaiters = <<>>
  /\ connectListeners = <<>>
  /\ connState = "disconnected"
  /\ connToken = 0
  /\ caller = [q \in Callers |-> IdleCaller]
  /\ refreshCalls = 0
  /\ everFailed = FALSE
  /\ everShort = FALSE

KeysUnused ==
  /\ resolveInScope = FALSE
  /\ ignoreExpiration = FALSE
  /\ JWKS = <<>>
  /\ lastUpdatedAt = 0
  /\ deferJWKRequest = NoLock
  /\ deferWaiters = <<>>
  /\ client = [q \in Clients |-> IdleClient]
  /\ fetchCalls = 0
  /\ everFetchFailed = FALSE

(* ===================== parseObjPropertyNames ========================== *)

\* Depth of nesting of the objects given to parseObjPropertyNames.
MaxDepth == 2

\* Names of properties; "" is the empty name.
PropertyKeys == {"", "a"}

Concatenators == {"#", "$#-"}

\* A JavaScript value: its kind, its own enumerable properties when it is a
\* plain object, its text when it is a string.
Value(kind, props, str) == [kind |-> kind, props |-> props, str |-> str]

\* {key: value, ...}
Obj(props) == Value("object", props, "")

\* A string.
Str(str) == Value("string", <<>>, str)

\* Values that are not objects with key value pairs.
Terminals == {Value("number", <<>>, ""), Value("null", <<>>, ""), Value("array", <<>>, "")}

\* No value: the function has not returned.
NotParsed == Value("none", <<>>, "")

\* The values nested at most d deep.
RECURSIVE Values(_)
Values(d) ==
  IF d = 0 THEN Terminals
  ELSE LET below == Values(d - 1)
       IN Terminals \cup
            {Obj(props) : props \in UNION {[keys -> below] : keys \in SUBSET PropertyKeys}}

\* typeof
typeOf(v) == IF v.kind \in {"object", "null", "array"} THEN "object" ELSE v.kind

\* isValidObject
isValidObject(v) == typeOf(v) = "object" /\ v.kind # "null" /\ v.kind # "array"

\* The helper parse of parseObjPropertyNames; a string is truthy when it is
\* not empty.
RECURSIVE parse(_, _, _)
parse(input, prevPath, sep) ==
  IF ~isValidObject(input) THEN Str(prevPath)
  ELSE Obj([key \in DOMAIN input.props |->
              parse(input.props[key],
                    IF prevPath # "" THEN prevPath \o sep \o key ELSE key,
                    sep)])

\* parseObjPropertyNames(obj, concatenator)
parseObjPropertyNames ==
  /\ output = NotParsed
  /\ output' = parse(obj, "", concatenator)
  /\ UNCHANGED <<uiVars, now, ready, socketState, keyVars, obj, concatenator>>

\* parseObjPropertyNames is not in use.
ParseUnused ==
  /\ obj = Obj(<<>>)
  /\ concatenator = ""
  /\ output = NotParsed

(* =========================== BottomDrawer ============================= *)

\* maxHeight - minHeight: the translateY of the closed drawer.
maxDrawerHeight == 8

\* Prop heightThreshold, in the units of maxDrawerHeight.
heightThreshold == 4

\* Constant of handleOnOpenCloseDrawer.
heightDiffThreshold == 2

\* Prop gestureVelocityThreshold, in tenths.
gestureVelocityThreshold == 5

\* Number of listener notifications recorded.
MaxNotified == 4

NoAnimation == -1

\* dy of a gesture: shorter and longer than heightThreshold, both ways.
Dys == {-(heightThreshold + 1), -1, 1, heightThreshold + 1}

\* vy at the release: fast upwards, slow, fast downwards.
Vys == {-(gestureVelocityThreshold + 1), 0, gestureVelocityThreshold + 1}

\* Math.abs
Abs(x) == IF x < 0 THEN -x ELSE x

\* The drawer and its refs after the first render.
DrawerMounted ==
  /\ currentHeight = maxDrawerHeight
  /\ heightInitial = 0
  /\ gestureDy = 0
  /\ gesture = "none"
  /\ animation = NoAnimation
  /\ drawerState = "initialClose"
  /\ notified = <<>>

\* The listeners of event are called.
notify(event) ==
  /\ Len(notified) < MaxNotified
  /\ notified' = Append(notified, event)

handleOnOpenCloseDrawer_NoStateCheck ==
  IF Abs(currentHeight) <= heightDiffThreshold
  THEN /\ drawerState' = "open"
       /\ notify("onOpen")
  ELSE IF Abs(currentHeight - maxDrawerHeight) <= heightThreshold
  THEN /\ drawerState' = "close"
       /\ notify("onClose")
  ELSE UNCHANGED <<drawerState, notified>>

\* handleOnOpenCloseDrawer
handleOnOpenCloseDrawer ==
  IF Abs(currentHeight) <= heightDiffThreshold
  THEN IF drawerState \in {"open", "initialOpen"}
       THEN UNCHANGED <<drawerState, notified>>
       ELSE /\ drawerState' = "open"
            /\ notify("onOpen")
  ELSE IF Abs(currentHeight - maxDrawerHeight) <= heightThreshold
  THEN IF drawerState \in {"close", "initialClose"}
       THEN UNCHANGED <<drawerState, notified>>
       ELSE /\ drawerState' = "close"
            /\ notify("onClose")
  ELSE UNCHANGED <<drawerState, notified>>

\* The running animation is stopped: its start callback runs.
stopAnimation ==
  IF animation # NoAnimation THEN handleOnOpenCloseDrawer
  ELSE UNCHANGED <<drawerState, notified>>

\* animateHeight(toHeight): Animated.timing(...).start(callback) stops the
\* animation that runs on heightAnim, whose callback is called.
animateHeight(toHeight) ==
  /\ stopAnimation
  /\ animation' = toHeight

\* open() of the ref.
open ==
  /\ animateHeight(0)
  /\ UNCHANGED <<currentHeight, heightInitial, gestureDy, gesture>>
  /\ UNCHANGED <<now, ready, socketState, keyVars, parseVars, locationVars>>

\* A frame of the animation: the listener of heightAnim stores the value.
animationFrame ==
  /\ animation # NoAnimation
  /\ currentHeight # animation
  /\ currentHeight' = IF currentHeight < animation THEN currentHeight + 1
                                                   ELSE currentHeight - 1
  /\ UNCHANGED <<heightInitial, gestureDy, gesture, animation, drawerState, notified>>
  /\ UNCHANGED <<now, ready, socketState, keyVars, parseVars, locationVars>>

\* The animation reaches toValue: its start callback runs.
animationEnds ==
  /\ animation # NoAnimation
  /\ currentHeight = animation
  /\ handleOnOpenCloseDrawer
  /\ animation' = NoAnimation
  /\ UNCHANGED <<currentHeight, heightInitial, gestureDy, gesture>>
  /\ UNCHANGED <<now, ready, socketState, keyVars, parseVars, locationVars>>

\* onPanResponderGrant
onPanResponderGrant ==
  /\ gesture = "none"
  /\ gesture' = "granted"
  /\ heightInitial' = currentHeight
  /\ gestureDy' = 0
  /\ UNCHANGED <<currentHeight, animation, drawerState, notified>>
  /\ UNCHANGED <<now, ready, socketState, keyVars, parseVars, locationVars>>

\* onPanResponderMove: heightAnim.setValue stops the running animation, then
\* stores the clamped height.
onPanResponderMove(dy) ==
  /\ gesture = "granted"
  /\ stopAnimation
  /\ animation' = NoAnimation
  /\ LET adjustedHeight == heightInitial + dy
     IN currentHeight' = IF adjustedHeight < 0 THEN 0
                         ELSE IF adjustedHeight > maxDrawerHeight THEN maxDrawerHeight
                         ELSE adjustedHeight
  /\ gestureDy' = dy
  /\ UNCHANGED <<heightInitial, gesture>>
  /\ UNCHANGED <<now, ready, socketState, keyVars, parseVars, locationVars>>

\* onPanResponderRelease with the dy of the gesture and the velocity vy.
onPanResponderRelease(vy) ==
  /\ gesture = "granted"
  /\ gesture' = "none"
  /\ IF Abs(vy) > gestureVelocityThreshold
     THEN IF vy > 0 THEN animateHeight(maxDrawerHeight) ELSE animateHeight(0)
     ELSE LET open0 ==
                IF heightThreshold - Abs(gestureDy) < 0
                THEN drawerState \in {"initialClose", "close"}
                ELSE drawerState \in {"initialOpen", "open"}
          IN IF open0 THEN animateHeight(0) ELSE animateHeight(maxDrawerHeight)
  /\ UNCHANGED <<currentHeight, heightInitial, gestureDy>>
  /\ UNCHANGED <<now, ready, socketState, keyVars, parseVars, locationVars>>

(* ============================ useLocation ============================= *)

\* Number of requestLocationPermission calls.
MaxRequests == 3

\* Number of runs of the subscription effect.
MaxEffects == 3

\* permissionStatus null.
NoStatus == [known |-> FALSE, granted |-> FALSE, canAskAgain |-> FALSE]

\* A Location.LocationPermissionResponse.
PermissionResponse(granted, canAskAgain) ==
  [known |-> TRUE, granted |-> granted, canAskAgain |-> canAskAgain]

\* What the permission calls can answer.
PermissionResponses ==
  {PermissionResponse(TRUE, TRUE), PermissionResponse(FALSE, TRUE),
   PermissionResponse(FALSE, FALSE)}

\* permissionStatus?.granted, the dependency of the subscription effect.
grantedDep(status) ==
  IF ~status.known THEN "undefined" ELSE IF status.granted THEN "true" ELSE "false"

\* The cleanup of the last run of the subscription effect:
\* locationSubscription?.remove() removes a subscription only once it has
\* been assigned.
cleanedUp(es) ==
  IF es # <<>> /\ ~es[Len(es)].cleaned
  THEN [es EXCEPT ![Len(es)] =
          [cleaned |-> TRUE,
           watch |-> IF @.watch = "active" THEN "removed" ELSE @.watch]]
  ELSE es

\* A run of the subscription effect: nothing without the subscription,
\* watchPositionAsync when permission is granted, the default location
\* otherwise.
runEffect(es, isSubscribed, status) ==
  IF ~isSubscribed THEN es
  ELSE Append(es, [cleaned |-> FALSE,
                   watch |-> IF status.known /\ status.granted THEN "pending" ELSE "none"])

\* The render after the state became isSubscribed and status: the effect is
\* cleaned up and run again when one of its dependencies changed.
commitEffects(isSubscribed, status) ==
  IF mounted /\ (isSubscribed # isSubscribeToLocationUpdates
                 \/ grantedDep(status) # grantedDep(permissionStatus))
  THEN /\ effects' = runEffect(cleanedUp(effects), isSubscribed, status)
       /\ Len(effects') <= MaxEffects
  ELSE UNCHANGED effects

\* dispatch(setLocationPermissionStatus(status))
dispatchLocationStatusUpdate(status) ==
  /\ permissionStatus' = status
  /\ commitEffects(isSubscribeToLocationUpdates, status)

refused_AnyDenial(result) == ~result.granted

\* `!result.canAskAgain && !result.granted`
refused(result) == ~result.canAskAgain /\ ~result.granted

\* requestLocationPermission up to its await or its end.
requestLocationPermission ==
  /\ requestCalls < MaxRequests
  /\ requestCalls' = requestCalls + 1
  /\ IF shouldOpenSettings
     THEN /\ appStateListeners' = appStateListeners + 1
          /\ settingsOpened' = settingsOpened + 1
          /\ UNCHANGED pendingRequests
     ELSE /\ pendingRequests' = pendingRequests + 1
          /\ UNCHANGED <<appStateListeners, settingsOpened>>
  /\ UNCHANGED <<permissionStatus, shouldOpenSettings, isSubscribeToLocationUpdates,
                 mounted, effects, pendingGets, everRefused>>
  /\ UNCHANGED <<now, ready, socketState, keyVars, parseVars, drawerVars>>

\* requestForegroundPermissionsAsync settles with result:
\* requestLocationPermission goes on after its await.
permissionRequestSettles(result) ==
  /\ pendingRequests > 0
  /\ pendingRequests' = pendingRequests - 1
  /\ shouldOpenSettings' = (shouldOpenSettings \/ refused(result))
  /\ everRefused' = (everRefused \/ (~result.granted /\ ~result.canAskAgain))
  /\ dispatchLocationStatusUpdate(result)
  /\ UNCHANGED <<isSubscribeToLocationUpdates, mounted, pendingGets,
                 appStateListeners, settingsOpened, requestCalls>>
  /\ UNCHANGED <<now, ready, socketState, keyVars, parseVars, drawerVars>>

\* The app comes back to the foreground: every AppState listener removes
\* itself and asks for the foreground permission.
appBecomesActive ==
  /\ appStateListeners > 0
  /\ pendingGets' = pendingGets + appStateListeners
  /\ appStateListeners' = 0
  /\ UNCHANGED <<permissionStatus, shouldOpenSettings, isSubscribeToLocationUpdates,
                 mounted, effects, pendingRequests, settingsOpened, requestCalls,
                 everRefused>>
  /\ UNCHANGED <<now, ready, socketState, keyVars, parseVars, drawerVars>>

\* getForegroundPermissionsAsync settles with result, which is dispatched.
getPermissionsSettles(result) ==
  /\ pendingGets > 0
  /\ pendingGets' = pendingGets - 1
  /\ dispatchLocationStatusUpdate(result)
  /\ UNCHANGED <<shouldOpenSettings, isSubscribeToLocationUpdates, mounted,
                 pendingRequests, appStateListeners, settingsOpened, requestCalls,
                 everRefused>>
  /\ UNCHANGED <<now, ready, socketState, keyVars, parseVars, drawerVars>>

\* subscribeToLocationUpdates
subscribeToLocationUpdates ==
  /\ mounted
  /\ ~isSubscribeToLocationUpdates
  /\ isSubscribeToLocationUpdates' = TRUE
  /\ commitEffects(TRUE, permissionStatus)
  /\ UNCHANGED <<permissionStatus, shouldOpenSettings, mounted, pendingRequests,
                 pendingGets, appStateListeners, settingsOpened, requestCalls,
                 everRefused>>
  /\ UNCHANGED <<now, ready, socketState, keyVars, parseVars, drawerVars>>

\* unSubscribeToLocationUpdates
unSubscribeToLocationUpdates ==
  /\ mounted
  /\ isSubscribeToLocationUpdates
  /\ isSubscribeToLocationUpdates' = FALSE
  /\ commitEffects(FALSE, permissionStatus)
  /\ UNCHANGED <<permissionStatus, shouldOpenSettings, mounted, pendingRequests,
                 pendingGets, appStateListeners, settingsOpened, requestCalls,
                 everRefused>>
  /\ UNCHANGED <<now, ready, socketState, keyVars, parseVars, drawerVars>>

\* The component unmounts: the cleanup of the effect runs.
unmount ==
  /\ mounted
  /\ mounted' = FALSE
  /\ effects' = cleanedUp(effects)
  /\ UNCHANGED <<permissionStatus, shouldOpenSettings, isSubscribeToLocationUpdates,
                 pendingRequests, pendingGets, appStateListeners, settingsOpened,
                 requestCalls, everRefused>>
  /\ UNCHANGED <<now, ready, socketState, keyVars, parseVars, drawerVars>>

\* watchPositionAsync of effect run i fulfils: its subscription is assigned
\* to locationSubscription of that run.
watchPositionResolves(i) ==
  /\ i \in DOMAIN effects
  /\ effects[i].watch = "pending"
  /\ effects' = [effects EXCEPT ![i].watch = "active"]
  /\ UNCHANGED <<permissionStatus, shouldOpenSettings, isSubscribeToLocationUpdates,
                 mounted, pendingRequests, pendingGets, appStateListeners,
                 settingsOpened, requestCalls, everRefused>>
  /\ UNCHANGED <<now, ready, socketState, keyVars, parseVars, drawerVars>>

\* watchPositionAsync of effect run i rejects: no subscription exists.
watchPositionRejects(i) ==
  /\ i \in DOMAIN effects
  /\ effects[i].watch = "pending"
  /\ effects' = [effects EXCEPT ![i].watch = "failed"]
  /\ UNCHANGED <<permissionStatus, shouldOpenSettings, isSubscribeToLocationUpdates,
                 mounted, pendingRequests, pendingGets, appStateListeners,
                 settingsOpened, requestCalls, everRefused>>
  /\ UNCHANGED <<now, ready, socketState, keyVars, parseVars, drawerVars>>

\* The hook after the first render with config.subscribeToUpdates: the
\* store holds no status, so the first effect asks for it.
HookMounted(subscribeToUpdates) ==
  /\ permissionStatus = NoStatus
  /\ shouldOpenSettings = FALSE
  /\ isSubscribeToLocationUpdates = subscribeToUpdates
  /\ mounted = TRUE
  /\ effects = runEffect(<<>>, subscribeToUpdates, NoStatus)
  /\ pendingRequests = 0
  /\ pendingGets = 1
  /\ appStateListeners = 0
  /\ settingsOpened = 0
  /\ requestCalls = 0
  /\ everRefused = FALSE

\* The hook is not in use.
HookUnused ==
  /\ permissionStatus = NoStatus
  /\ shouldOpenSettings = FALSE
  /\ isSubscribeToLocationUpdates = FALSE
  /\ mounted = FALSE
  /\ effects = <<>>
  /\ pendingRequests = 0
  /\ pendingGets = 0
  /\ appStateListeners = 0
  /\ settingsOpened = 0
  /\ requestCalls = 0
  /\ everRefused = FALSE

\* No component is in use.
UiUnused == DrawerMounted /\ HookUnused

\* One component that uses the hook.
InitLocation ==
  /\ SocketUnused
  /\ KeysUnused
  /\ ParseUnused
  /\ DrawerMounted
  /\ now = 0
  /\ ready = <<>>
  /\ \E subscribeToUpdates \in BOOLEAN : HookMounted(subscribeToUpdates)

NextLocation ==
  \/ requestLocationPermission
  \/ \E result \in PermissionResponses : permissionRequestSettles(result)
  \/ appBecomesActive
  \/ \E result \in PermissionResponses : getPermissionsSettles(result)
  \/ subscribeToLocationUpdates
  \/ unSubscribeToLocationUpdates
  \/ unmount
  \/ \E i \in 1 .. MaxEffects : watchPositionResolves(i)
  \/ \E i \in 1 .. MaxEffects : watchPositionRejects(i)

\* One drawer, its gestures and the calls of open().
InitDrawer ==
  /\ SocketUnused
  /\ KeysUnused
  /\ ParseUnused
  /\ now = 0
  /\ ready = <<>>
  /\ DrawerMounted
  /\ HookUnused

NextDrawer ==
  \/ open
  \/ animationFrame
  \/ animationEnds
  \/ onPanResponderGrant
  \/ \E dy \in Dys : onPanResponderMove(dy)
  \/ \E vy \in Vys : onPanResponderRelease(vy)

\* A call of parseObjPropertyNames is about to be made with an object and a
\* concatenator.
InitParse ==
  /\ SocketUnused
  /\ KeysUnused
  /\ UiUnused
  /\ now = 0
  /\ ready = <<>>
  /\ obj \in {v \in Values(MaxDepth) : isValidObject(v)}
  /\ concatenator \in Concatenators
  /\ output = NotParsed

NextParse == parseObjPropertyNames

\* State after `new Auth0Client(agent, jwtService, options)` with
\* options.ignoreExpiration drawn from ignoreExps; the clock reads more than
\* cacheTime, as lastUpdatedAt starts at 0.
Constructed(ignoreExps) ==
  /\ SocketUnused
  /\ ParseUnused
  /\ UiUnused
  /\ now = cacheTime + 1
  /\ ready = <<>>
  /\ resolveInScope \in BOOLEAN
  /\ ignoreExpiration \in ignoreExps
  /\ JWKS = <<>>
  /\ lastUpdatedAt = 0
  /\ deferJWKRequest = NoLock
  /\ deferWaiters = <<>>
  /\ client = [q \in Clients |-> IdleClient]
  /\ fetchCalls = 0
  /\ everFetchFailed = FALSE

\* The options leave ignoreExpiration undefined: it is false.
InitKeys == Constructed({FALSE})

\* ignoreExpiration is set either way.
InitVerify == Constructed(BOOLEAN)

NextKeys ==
  \/ \E p \in Clients, kid \in Kids : getSigningKey(p, kid)
  \/ \E p \in Clients : updateKeyCacheIfStale(p)
  \/ \E p \in Clients : resumeGetSigningKey(p)
  \/ \E p \in Clients : resumeUpdateIfStale(p)
  \/ \E p \in Clients, resp \in Responses : requestSettles(p, resp)
  \/ \E p \in Clients : updateKeyCache(p)
  \/ \E p \in Clients : releaseAfterRebuild(p)
  \/ \E p \in Clients : catchAfterRebuild(p)
  \/ \E p \in Clients : lookupKey(p)
  \/ keyTick

(* ========================= specifications ============================ *)

\* State after `new AuthSocket(socket, auth, refreshThreshold)`.
InitSocket ==
  /\ srcFile \in SourceFiles
  /\ now = 0
  /\ authenticated \in BOOLEAN
  /\ srcToken = 1
  /\ srcExp \in {now + life : life \in TokenLifetimes}
  /\ authToken = 0
  /\ credentialsExpiresAt = 0
  /\ credentialRefreshLock = NoLock
  /\ refreshWaiters = <<>>
  /\ socketEmitLock = NoLock
  /\ emitUnlocked = {}
  /\ emitWaiters = <<>>
  /\ connectListeners = <<>>
  /\ connState = "disconnected"
  /\ connToken = 0
  /\ caller = [q \in Callers |-> IdleCaller]
  /\ ready = <<>>
  /\ refreshCalls = 0
  /\ everFailed = FALSE
  /\ everShort = FALSE
  /\ KeysUnused
  /\ ParseUnused
  /\ UiUnused

NextSocket ==
  \/ \E p \in Callers : authConnect(p)
  \/ \E p \in Callers : authEmit(p)
  \/ \E p \in Callers : resumeAfterLock(p)
  \/ \E p \in Callers, life \in TokenLifetimes : silentTokenRefreshResolves(p, life)
  \/ \E p \in Callers : silentTokenRefreshRejects(p)
  \/ \E p \in Callers : refreshSucceeded(p)
  \/ \E p \in Callers : refreshFailed(p)
  \/ \E p \in Callers : connectAfterRefresh(p)
  \/ \E p \in Callers : emitAfterRefresh(p)
  \/ \E p \in Callers : emitAfterReconnect(p)
  \/ connectEvent
  \/ \E life \in TokenLifetimes : sourceRotatesToken(life)
  \/ userLogsOut
  \/ tick

SpecSocket == InitSocket /\ [][NextSocket]_vars

\* The next continuation of the queue runs.
runsContinuation ==
  \E p \in Callers :
    \/ resumeAfterLock(p)
    \/ refreshSucceeded(p)
    \/ refreshFailed(p)
    \/ connectAfterRefresh(p)
    \/ emitAfterRefresh(p)
    \/ emitAfterReconnect(p)

\* The silentTokenRefresh of task p settles.
refreshSettles(p) ==
  \/ \E life \in TokenLifetimes : silentTokenRefreshResolves(p, life)
  \/ silentTokenRefreshRejects(p)

\* SpecSocket in which queued continuations run, every silentTokenRefresh
\* settles and every connect() is followed by the 'connect' event.
SpecSocketLive ==
  /\ SpecSocket
  /\ WF_vars(runsContinuation)
  /\ \A p \in Callers : WF_vars(refreshSettles(p))
  /\ WF_vars(connectEvent)

SpecKeys == InitKeys /\ [][NextKeys]_vars

\* The Auth0Client with direct calls of updateKeyCache() beside the calls of
\* getSigningKey and updateKeyCacheIfStale.
NextRebuild ==
  \/ NextKeys
  \/ \E p \in Clients : callUpdateKeyCache(p)

SpecRebuild == InitKeys /\ [][NextRebuild]_vars

\* Concurrent calls of verifyAccessToken.
NextVerify ==
  \/ \E p \in Clients, token \in Tokens : verifyAccessToken(p, token)
  \/ \E p \in Clients : resumeGetSigningKey(p)
  \/ \E p \in Clients : resumeUpdateIfStale(p)
  \/ \E p \in Clients, resp \in Responses : requestSettles(p, resp)
  \/ \E p \in Clients : updateKeyCache(p)
  \/ \E p \in Clients : releaseAfterRebuild(p)
  \/ \E p \in Clients : catchAfterRebuild(p)
  \/ \E p \in Clients : lookupKey(p)
  \/ \E p \in Clients : verifyToken(p)
  \/ \E p \in Clients : verifyReturns(p)
  \/ keyTick

SpecVerify == InitVerify /\ [][NextVerify]_vars

SpecParse == InitParse /\ [][NextParse]_vars

SpecDrawer == InitDrawer /\ [][NextDrawer]_vars

SpecLocation == InitLocation /\ [][NextLocation]_vars

(* ===================== AuthSocket: properties ========================= *)

\* Tasks whose silentTokenRefresh call has not settled.
RefreshInFlight == {p \in Callers : caller[p].pc = "refreshing"}

\* Tasks for which _refreshCredentialsIfNecessary has returned and whose
\* connect / emit is about to go on.
Proceeding == {p \in Callers : caller[p].pc \in {"retTrue", "retFalse"}}

\* C1: as long as every silentTokenRefresh succeeded with a token that is at
\* least the threshold from expiry, silentTokenRefresh is invoked at most once
\* per token of the source, and a call that started while the source's token
\* was inside the threshold goes on only once the socket holds a later token.
C1_SingleRefreshForConcurrentCalls ==
  (~everFailed /\ ~everShort) =>
    /\ refreshCalls <= 1
    /\ \A p \in Proceeding :
         caller[p].tok0 # 0 =>
           /\ authToken > caller[p].tok0
           /\ credentialsExpiresAt - now >= credentialRefreshThreshold

\* Two calls that started while token 1 was inside the threshold both go on
\* with token 2, one having refreshed and one having waited.
C1_Witness ==
  /\ ~everFailed /\ ~everShort
  /\ authToken = 2
  /\ \E p, q \in Callers :
       /\ caller[p].pc = "retTrue" /\ caller[p].tok0 = 1
       /\ caller[q].pc = "retFalse" /\ caller[q].tok0 = 1

\* C3: at most one silentTokenRefresh call is in flight.
C3_AtMostOneRefreshInFlight == Cardinality(RefreshInFlight) <= 1

\* C5: after a failed silentTokenRefresh the lock is released: the lock is
\* held only while a refresh is in flight or its continuation is still to run.
C5_LockReleasedAfterFailure ==
  RefreshLockHeld =>
    \E p \in Callers : caller[p].pc \in {"refreshing", "settledOk", "settledErr"}

\* C6: a call that was waiting on the lock of a refresh that failed neither
\* starts a refresh of its own nor returns normally.
C6_JoinedCallsReject ==
  \A p \in Callers :
    caller[p].joinedFailed => caller[p].pc \in {"awaitLock", "woken"}

\* C7: the steps of a call whose silentTokenRefresh fails (starting the
\* refresh, its rejection, the handling of the rejection) leave the socket's
\* auth token and credentialsExpiresAt as they were.
C7_FailedRefreshKeepsCredential ==
  [][\A p \in Callers :
       (\/ caller[p].pc # "refreshing" /\ caller'[p].pc = "refreshing"
        \/ caller[p].pc = "refreshing" /\ caller'[p].pc = "settledErr"
        \/ caller[p].pc = "settledErr" /\ caller'[p].pc # "settledErr")
       => UNCHANGED credentialVars]_vars

\* A refresh failed while the socket held token 1, and the socket still holds
\* token 1 with its expiry.
C7_Witness ==
  /\ \E p \in Callers : caller[p].res = "RefreshFailure"
  /\ authToken = 1
  /\ credentialsExpiresAt = credentialRefreshThreshold + 1

(* ===================== Auth0Client: properties ======================== *)

\* Tasks whose request to the key endpoint has not settled.
FetchInFlight == {p \in Clients : client[p].pc = "fetching"}

\* The key fetch failed: the request was rejected or its status is not 2xx.
FetchFailed(resp) ==
  resp.kind = "error" \/ (resp.kind = "response" /\ resp.statusCode \notin 200 .. 299)

C4_AtMostOneFetchInFlight == Cardinality(FetchInFlight) <= 1

\* C8: after a failed rebuild no caller that was waiting on it stays
\* suspended on a promise that is never settled.
C8_WaitersResumeAfterFailure == \A p \in Clients : client[p].pc # "orphaned"

\* C9: when the key fetch fails, the call that started the rebuild rejects
\* with the fetch error, and a call that joined the rebuild neither goes on to
\* a fetch of its own nor to its lookup.
C9_FetchErrorReachesEveryCaller ==
  \A p \in Clients :
    /\ client[p].res # "ReferenceError"
    /\ client[p].joinedFailed => client[p].pc \in {"awaitA", "awaitB", "wokeA", "wokeB"}

\* C10: the steps of a rebuild whose fetch fails (the request, its failure,
\* getJwks throwing, the catch block) leave JWKS and lastUpdatedAt unchanged.
C10_FailedFetchKeepsCache ==
  [][\A p \in Clients :
       (\/ client[p].pc # "fetching" /\ client'[p].pc = "fetching"
        \/ client[p].pc = "fetching" /\ client'[p].pc = "fetched"
             /\ FetchFailed(client'[p].resp)
        \/ client[p].pc \in {"fetched", "rejected"} /\ FetchFailed(client[p].resp)
             /\ client'[p].pc # client[p].pc)
       => UNCHANGED cacheVars]_vars

\* A fetch failed after an earlier rebuild had filled the cache, and the cache
\* still holds the keys and time of that rebuild.
C10_Witness ==
  /\ \E p \in Clients : client[p].res = "FetchError"
  /\ DOMAIN JWKS = {"a", "b"}
  /\ lastUpdatedAt = cacheTime + 1
  /\ now > lastUpdatedAt + cacheTime

\* C11: the call whose rebuild threw ends there, with deferJWKRequest reset
\* and lastUpdatedAt as it was (no retry inside the call, nothing remembered
\* of the failure); and once a rebuild has failed, a getSigningKey call that
\* starts on a stale cache with no rebuild pending requests the keys itself.
C11_FailureDoesNotSuppressRebuild ==
  [][\A p \in Clients :
       /\ (client[p].pc = "rejected" /\ client'[p].pc # "rejected") =>
            /\ client'[p].pc = "done"
            /\ deferJWKRequest' = NoLock
            /\ UNCHANGED lastUpdatedAt
       /\ (/\ everFetchFailed
           /\ client[p].pc = "idle" /\ client'[p].op = "getSigningKey"
           /\ now - lastUpdatedAt > cacheTime
           /\ deferJWKRequest = NoLock) =>
            /\ client'[p].pc = "fetching"
            /\ fetchCalls' = fetchCalls + 1]_vars

\* The rebuild of one call failed, and a later getSigningKey call that never
\* waited on that rebuild has its own request in flight.
C11_Witness ==
  \E p, q \in Clients :
    /\ p < q
    /\ client[p].res \in {"FetchError", "ReferenceError"}
    /\ client[q].pc = "fetching"
    /\ client[q].op = "getSigningKey"
    /\ ~client[q].joinedFailed
    /\ deferJWKRequest = q

\* The kids of the descriptors of keys that updateKeyCache accepts.
UsableKids(keys) == {keys[i].kid : i \in {j \in DOMAIN keys : keyIsUsable(keys[j])}}

\* C12: JWKS changes only as a whole: a step either leaves it as it was or
\* leaves it holding exactly the usable keys of the response just fetched.
C12_CacheReplacedAtomically ==
  [][\/ JWKS' = JWKS
     \/ \E p \in Clients :
          /\ client[p].pc = "fetched"
          /\ client[p].resp.kind = "response"
          /\ client[p].resp.hasKeys
          /\ DOMAIN JWKS' = UsableKids(client[p].resp.keys)]_vars

\* Task p completes a rebuild in this step: updateKeyCache runs to its end.
RebuildSucceeds(p) ==
  /\ client[p].pc = "fetched"
  /\ \/ client'[p].pc = "updated"
     \/ client'[p].pc = "done" /\ client'[p].res = "returned"

\* C13: a rebuild that succeeds leaves JWKS with kids of the fetched set only,
\* whatever it held before and however recent the previous rebuild; a
\* getSigningKey call that starts on a cache that is not stale looks its kid up
\* without a fetch, and the lookup of a kid that JWKS does not hold fails with
\* the no-signing-key error.
C13_RotatedKidUnresolvable ==
  [][\A p \in Clients :
       /\ RebuildSucceeds(p) =>
            DOMAIN JWKS' \subseteq
              {client[p].resp.keys[i].kid : i \in DOMAIN client[p].resp.keys}
       /\ (/\ client[p].pc = "idle" /\ client'[p].op = "getSigningKey"
           /\ now - lastUpdatedAt <= cacheTime
           /\ deferJWKRequest = NoLock) =>
            client'[p].pc = "staleRet"
       /\ (/\ client[p].pc = "staleRet" /\ client'[p].pc = "done"
           /\ client[p].kid \notin DOMAIN JWKS) =>
            client'[p].res = "NoSigningKey"]_vars

\* Kid "a" was served from the cache, a later rebuild at the same clock
\* reading fetched a set without it, and a later getSigningKey("a") failed.
C13_Witness ==
  /\ ~everFetchFailed
  /\ now = cacheTime + 1
  /\ lastUpdatedAt = now
  /\ DOMAIN JWKS = {"b"}
  /\ \E p, q \in Clients :
       /\ p < q
       /\ client[p].res = "key" /\ client[p].kid = "a"
       /\ client[q].res = "NoSigningKey" /\ client[q].kid = "a"

\* C14: a rebuild over a fetched key list runs to its end and leaves JWKS
\* with an entry for exactly the descriptors that have use "sig", kty "RSA",
\* a kid, and an x5c chain or both n and e.
C14_RebuildKeepsExactlyUsableKeys ==
  [][\A p \in Clients :
       (/\ client[p].pc = "fetched" /\ client'[p].pc # "fetched"
        /\ ~FetchFailed(client[p].resp)
        /\ client[p].resp.hasKeys) =>
         /\ RebuildSucceeds(p)
         /\ DOMAIN JWKS' = UsableKids(client[p].resp.keys)]_vars

\* JWKS' holds, for every usable descriptor of keys, the PEM of its
\* certificate, and nothing else.
InstalledFrom(keys) ==
  /\ DOMAIN JWKS' = UsableKids(keys)
  /\ \A k \in DOMAIN JWKS' :
       \E i \in DOMAIN keys :
         /\ keys[i].kid = k /\ keyIsUsable(keys[i]) /\ keys[i].x5c # <<>>
         /\ JWKS'[k] = certToPEM(keys[i].x5c[1])

\* C15: lastUpdatedAt changes only in the step that completes a rebuild, to the
\* clock reading of that step and together with the fully installed map; a
\* rebuild that throws leaves it as it was.
C15_StampOnlyAfterInstall ==
  [][/\ lastUpdatedAt' # lastUpdatedAt =>
          \E p \in Clients :
            /\ RebuildSucceeds(p)
            /\ client[p].resp.hasKeys
            /\ InstalledFrom(client[p].resp.keys)
            /\ lastUpdatedAt' = now
     /\ \A p \in Clients :
          (/\ client[p].pc = "fetched" /\ client'[p].pc # "fetched"
           /\ ~RebuildSucceeds(p)) => UNCHANGED lastUpdatedAt]_vars

\* A second rebuild has just completed, a clock step after the first: JWKS is
\* the newly fetched set and lastUpdatedAt the clock reading.
C15_Witness ==
  /\ now > cacheTime + 1
  /\ lastUpdatedAt = now
  /\ DOMAIN JWKS = {"b"}
  /\ \E p, q \in Clients :
       /\ client[p].pc = "updated"
       /\ client[q].res = "key" /\ client[q].kid = "a"

(* ============== AuthSocket: properties of the single call ============== *)

\* Task p evaluates the conditions of _refreshCredentialsIfNecessary in this
\* step: on its call when it does not have to wait for the lock, or when it
\* resumes after the wait.
ChecksFreshness(p) ==
  \/ /\ caller[p].pc = "idle" /\ authenticated
     /\ caller'[p].pc \notin {"idle", "awaitLock"}
  \/ caller[p].pc = "woken" /\ caller'[p].pc # "woken"

\* The local credential is inside the tolerance and has the source's expiry.
LocalCredentialCurrent ==
  /\ credentialsExpiresAt - now >= credentialRefreshThreshold
  /\ credentialsExpiresAt = srcExp

\* C16: a freshness check made while the local credential is inside the
\* tolerance and has the source's expiry returns false, calls no
\* silentTokenRefresh and changes neither the credential, the lock nor the
\* source, so that the next check finds the same.
C16_FastPathReturnsFalse ==
  [][\A p \in Callers :
       (ChecksFreshness(p) /\ LocalCredentialCurrent) =>
         /\ caller'[p].pc = "retFalse"
         /\ RefreshInFlight' = RefreshInFlight
         /\ UNCHANGED <<credentialVars, sourceVars, credentialRefreshLock,
                        refreshCalls, now>>]_vars

\* Two calls made one after the other on a current credential have both
\* returned false, and silentTokenRefresh was never called.
C16_Witness ==
  /\ srcToken = 1 /\ refreshCalls = 0 /\ ~everFailed
  /\ authToken = 1
  /\ \E p, q \in Callers :
       /\ p # q
       /\ caller[p].pc = "retFalse"
       /\ caller[q].pc = "retFalse"

\* The source reports another expiry than the local one, at least the
\* threshold away.
SourceRotatedAndFresh ==
  /\ srcExp # credentialsExpiresAt
  /\ srcExp - now >= credentialRefreshThreshold

\* C17: a freshness check made while the source's expiry differs from the
\* local one and is at least the threshold away calls no silentTokenRefresh,
\* copies the source's token and expiry into the local credential and
\* returns true.
C17_OutOfSyncCopiesWithoutRefresh ==
  [][\A p \in Callers :
       (ChecksFreshness(p) /\ SourceRotatedAndFresh) =>
         /\ caller'[p].pc = "retTrue"
         /\ authToken' = srcToken
         /\ credentialsExpiresAt' = srcExp
         /\ RefreshInFlight' = RefreshInFlight
         /\ UNCHANGED <<sourceVars, credentialRefreshLock, refreshCalls>>]_vars

\* The source rotated its token by itself to token 2, away from expiry, and
\* a call has copied token 2 and its expiry and returned true while no
\* silentTokenRefresh call was made for it.
C17_Witness ==
  /\ srcToken = 2 /\ ~everFailed /\ ~everShort
  /\ authToken = 2 /\ credentialsExpiresAt = srcExp
  /\ \A q \in Callers : caller[q].tok0 = 0
  /\ \E p \in Callers : caller[p].pc = "retTrue"

\* C18: a call of authConnect or authEmit made while the user is not
\* authenticated is over at once with the authorization error: no
\* silentTokenRefresh starts, the credential, the two locks and the socket's
\* connection are left alone, and no continuation is queued.
C18_UnauthenticatedFailsFast ==
  [][\A p \in Callers :
       (caller[p].pc = "idle" /\ caller'[p].pc # "idle" /\ ~authenticated) =>
         /\ caller'[p] = Finished("AuthorizationError")
         /\ RefreshInFlight' = RefreshInFlight
         /\ UNCHANGED <<credentialVars, refreshLockVars, emitLockVars, connVars,
                        refreshCalls, ready>>]_vars

\* The session ended while a refresh was in flight; a later call failed with
\* the authorization error instead of waiting on the lock of that refresh.
C18_Witness ==
  \E p, q \in Callers :
    /\ q < p
    /\ caller[q].pc = "refreshing"
    /\ credentialRefreshLock = q
    /\ refreshCalls = 1
    /\ refreshWaiters = <<>>
    /\ caller[p].res = "AuthorizationError"

(* ================= AuthSocket: properties of authEmit ================== *)

\* Task p issues socketClientInstance.emit in this step.
IssuesEmit(p) == caller[p].res # "emit" /\ caller'[p].res = "emit"

\* C19: an authEmit call whose freshness check returned true reconnects the
\* socket with the new credential and does not emit in that step; it emits
\* only after the step of the socket's next 'connect' event has resumed it.
C19_EmitAfterReconnect ==
  [][\A p \in Callers :
       /\ (/\ caller[p].pc = "retTrue" /\ caller[p].kind = "emit"
           /\ caller'[p].pc # "retTrue") =>
            /\ connState' = "connecting"
            /\ connToken' = authToken
            /\ ~IssuesEmit(p)
            /\ caller'[p].pc = "awaitEmit"
       /\ (caller[p].pc = "awaitEmit" /\ caller'[p].pc # "awaitEmit") =>
            /\ connState = "connecting" /\ connState' = "connected"
            /\ caller'[p].pc = "emitReady"]_vars

\* C20: in authSocket.ts no authEmit call issues its emit while the 'connect'
\* event of a reconnection made after a refresh is still to come, that is,
\* while a once('connect') listener of such a reconnection is registered.
C20_NoEmitWhileReconnecting ==
  [][HasEmitLock =>
       \A p \in Callers : IssuesEmit(p) => connectListeners = <<>>]_vars

(* ============ Auth0Client: properties of the single call =============== *)

\* Task p calls getSigningKey in this step while no rebuild is pending.
StartsGetSigningKey(p) ==
  /\ client[p].pc = "idle" /\ client'[p].op = "getSigningKey"
  /\ deferJWKRequest = NoLock

\* C21: a getSigningKey call made with no rebuild pending requests the keys
\* exactly when more than cacheTime has passed since lastUpdatedAt; up to and
\* including cacheTime it goes to the lookup without a request, and the lookup
\* of a kid that JWKS holds returns its entry.
C21_FreshCacheServedWithoutFetch ==
  [][\A p \in Clients :
       /\ (StartsGetSigningKey(p) /\ now - lastUpdatedAt <= cacheTime) =>
            /\ client'[p].pc = "staleRet"
            /\ FetchInFlight' = FetchInFlight
            /\ UNCHANGED <<cacheVars, deferJWKRequest, fetchCalls>>
       /\ (StartsGetSigningKey(p) /\ now - lastUpdatedAt > cacheTime) =>
            client'[p].pc = "fetching"
       /\ (/\ client[p].pc = "staleRet" /\ client'[p].pc = "done"
           /\ client[p].kid \in DOMAIN JWKS) =>
            /\ client'[p].res = "key"
            /\ UNCHANGED cacheVars]_vars

\* Exactly cacheTime after the last rebuild a getSigningKey call for a cached
\* kid has gone to its lookup with no request made.
C21_Witness ==
  /\ lastUpdatedAt > 0
  /\ now - lastUpdatedAt = cacheTime
  /\ fetchCalls = 0 /\ FetchInFlight = {}
  /\ \E p \in Clients :
       /\ client[p].pc = "staleRet" /\ client[p].lu0 = -1
       /\ client[p].kid \in DOMAIN JWKS

\* The positions of a call after its request to the key endpoint was made.
AfterFetch == {"fetched", "updated", "rejected", "staleRet", "done"}

\* C22: a call whose request has been made never makes another one (it goes
\* on to its lookup or its end only), and the lookup of a kid that JWKS does
\* not hold ends the call with the no-signing-key error.
C22_MissingKidFailsWithoutRefetch ==
  [][\A p \in Clients :
       /\ client[p].pc \in AfterFetch => client'[p].pc \in AfterFetch
       /\ (client[p].pc = "staleRet" /\ client'[p] # client[p]) =>
            /\ client'[p].pc = "done"
            /\ client'[p].res =
                 IF client[p].kid \in DOMAIN JWKS THEN "key" ELSE "NoSigningKey"
            /\ UNCHANGED <<cacheVars, deferVars, fetchCalls>>]_vars

\* The only call made so far rebuilt the cache from a set without kid "a"
\* and failed its lookup of "a"; nothing was requested after that.
C22_Witness ==
  /\ client[1].res = "NoSigningKey" /\ client[1].kid = "a"
  /\ \A q \in Clients \ {1} : client[q].pc = "idle"
  /\ lastUpdatedAt = now
  /\ DOMAIN JWKS = {"b"}
  /\ fetchCalls = 0 /\ FetchInFlight = {}

(* ================= Auth0Client: verifyAccessToken ===================== *)

\* The task runs verifyAccessToken.
Verifies(p) == client[p].token # NoToken

\* C23: a verifyAccessToken whose lookup finds no key for the kid of the
\* token ends in that step with the no-signing-key TypeError of
\* getSigningKey; jwtService.verify is invoked only by a call to which the
\* lookup handed a key of the cache.
C23_MissingKeyFailsBeforeVerify ==
  [][\A p \in Clients :
       /\ (/\ Verifies(p)
           /\ client[p].pc = "staleRet"
           /\ client[p].kid \notin DOMAIN JWKS
           /\ client'[p] # client[p]) =>
             /\ client'[p].pc = "done"
             /\ client'[p].res = "NoSigningKey"
             /\ client'[p].verifyErrors = "null"
       /\ (client'[p].pc = "keyRet" /\ client[p].pc # "keyRet") =>
             /\ client[p].kid \in DOMAIN JWKS
             /\ client'[p].publicKey = JWKS[client[p].kid]
       /\ (client'[p].pc = "verified" /\ client[p].pc # "verified") =>
             client[p].pc = "keyRet"]_vars

\* A verifyAccessToken of a token with kid "a" failed with the lookup error
\* right after a rebuild that stored only kid "b".
C23_Witness ==
  /\ client[1].pc = "done" /\ client[1].token = TokenA
  /\ client[1].res = "NoSigningKey"
  /\ client[1].publicKey = <<>> /\ client[1].verifyErrors = "null"
  /\ DOMAIN JWKS = {"b"}
  /\ lastUpdatedAt = now

\* The token carries a signature made with the key of the certificate in pem.
SignedWith(token, pem) ==
  pem = <<"-----BEGIN CERTIFICATE-----", token.signedBy, "-----END CERTIFICATE-----">>

\* C24: a verifyAccessToken that reached jwtService.verify returns the
\* payload exactly when the signature matches the key and the token is
\* unexpired or ignoreExpiration is set; otherwise it throws the error of
\* verify. No other call yields a payload.
C24_PayloadOnlyWithoutVerifyError ==
  \A p \in Clients :
    /\ client[p].res = "payload" =>
          /\ client[p].pc = "done"
          /\ client[p].publicKey # <<>>
    /\ (client[p].pc = "done" /\ client[p].publicKey # <<>>) =>
          LET sigOk == SignedWith(client[p].token, client[p].publicKey)
              expOk == ignoreExpiration \/ ~client[p].token.expired
          IN /\ client[p].res = "payload" <=> (sigOk /\ expOk)
             /\ ~sigOk => client[p].res = "JsonWebTokenError"
             /\ (sigOk /\ ~expOk) => client[p].res = "TokenExpiredError"

\* One call returned the payload, one threw the signature error and one
\* the expiry error.
C24_Witness ==
  /\ client[1].pc = "done" /\ client[1].token = ForgedA
  /\ client[1].res = "JsonWebTokenError"
  /\ client[2].pc = "done" /\ client[2].token = TokenA
  /\ client[2].res = "payload"
  /\ client[3].pc = "done" /\ client[3].token = ExpiredA
  /\ client[3].res = "TokenExpiredError"

\* C25: a verifyAccessToken of a token that does not decode or whose header
\* has no kid ends with the error raised on the form of the token, never
\* with the no-signing-key error of the lookup.
C25_MalformedTokenError ==
  \A p \in Clients :
    (/\ client[p].pc = "done"
     /\ Verifies(p)
     /\ (~client[p].token.decodes \/ client[p].token.kid = "")) =>
       client[p].res = "HeaderTypeError"

(* ============== AuthSocket: the credential and its lock =============== *)

\* C26: the token of the socket and credentialsExpiresAt are written only
\* together, to the token and the expiry the source holds at that moment;
\* with no token stored the expiry is 0, and with the source's token stored
\* it is the source's expiry.
C26_ExpiryMatchesStoredToken ==
  [][/\ (authToken' # authToken \/ credentialsExpiresAt' # credentialsExpiresAt) =>
          /\ authToken' = srcToken /\ credentialsExpiresAt' = srcExp
          /\ UNCHANGED sourceVars
     /\ authToken' = 0 => credentialsExpiresAt' = 0
     /\ authToken' = srcToken' => credentialsExpiresAt' = srcExp']_vars

\* The socket holds a token the source has replaced since, with the expiry
\* of that token.
C26_Witness ==
  /\ authToken # 0
  /\ authToken # srcToken
  /\ credentialsExpiresAt # 0
  /\ credentialsExpiresAt # srcExp

\* Task p returns res from _refreshCredentialsIfNecessary in this step.
ReturnsFromRefresh(p, res) ==
  /\ caller'[p].pc = res
  /\ caller[p].pc # res

\* C28: the step in which a call returns true is the step in which it puts
\* the source's token and expiry into the credential; the step in which a
\* call returns false leaves the credential as it was; and the credential
\* changes only in the step of a call that returns true.
C28_ReturnValueTellsInstall ==
  [][/\ \A p \in Callers :
          /\ ReturnsFromRefresh(p, "retTrue") =>
                /\ authToken' = srcToken
                /\ credentialsExpiresAt' = srcExp
          /\ ReturnsFromRefresh(p, "retFalse") =>
                /\ authToken' = authToken
                /\ credentialsExpiresAt' = credentialsExpiresAt
     /\ (authToken' # authToken \/ credentialsExpiresAt' # credentialsExpiresAt) =>
          \E p \in Callers : ReturnsFromRefresh(p, "retTrue")]_vars

\* One call has returned true after installing the second token and a later
\* call is returning false with that credential in place.
C28_Witness ==
  /\ caller[1].pc = "done" /\ caller[1].res \in {"connect", "emit"}
  /\ caller[2].pc = "retFalse"
  /\ authToken = 2 /\ srcToken = 2
  /\ credentialsExpiresAt = srcExp

\* C29: credentialRefreshLock stops holding the lock of task l only in the
\* continuation of l after l's own silentTokenRefresh settled, and that
\* continuation always releases the lock l created.
C29_LockReleasedOnceByCreator ==
  [][\A l \in Callers :
       /\ (credentialRefreshLock = l /\ credentialRefreshLock' # l) =>
             /\ Runs(l)
             /\ caller[l].pc \in {"settledOk", "settledErr"}
       /\ (/\ credentialRefreshLock = l
           /\ caller[l].pc \in {"settledOk", "settledErr"}
           /\ caller'[l].pc \notin {"settledOk", "settledErr"}) =>
             credentialRefreshLock' # l]_vars

(* ================= Auth0Client: who writes the cache ================== *)

\* C27: JWKS and lastUpdatedAt change only in a step of the task that set
\* the deferJWKRequest now in place.
C27_CacheWrittenByLatchOwner ==
  [][(JWKS' # JWKS \/ lastUpdatedAt' # lastUpdatedAt) =>
       /\ deferJWKRequest # NoLock
       /\ Runs(deferJWKRequest)
       /\ client[deferJWKRequest].pc = "fetched"]_vars

(* ================== parseObjPropertyNames: the paths ================== *)

\* The keys ks joined by sep.
RECURSIVE JoinKeys(_, _)
JoinKeys(ks, sep) ==
  IF Len(ks) = 1 THEN ks[1]
  ELSE JoinKeys(SubSeq(ks, 1, Len(ks) - 1), sep) \o sep \o ks[Len(ks)]

\* The value v found under the keys ks, with the keys and nesting kept and
\* every terminal replaced by its keys joined by sep.
RECURSIVE PathsOf(_, _, _)
PathsOf(v, ks, sep) ==
  IF v.kind = "object"
  THEN Obj([key \in DOMAIN v.props |-> PathsOf(v.props[key], Append(ks, key), sep)])
  ELSE Str(JoinKeys(ks, sep))

\* C30: what parseObjPropertyNames returns has the keys and nesting of obj
\* and every terminal property holds the keys from the root down to it
\* joined by the concatenator, whatever the names of the keys.
C30_TerminalsHoldJoinedPath ==
  output # NotParsed => output = PathsOf(obj, <<>>, concatenator)

(* ============================ BottomDrawer ============================ *)

\* The notification made in this step.
Notifies(event) ==
  /\ Len(notified') = Len(notified) + 1
  /\ notified'[Len(notified')] = event

\* C31: the onOpen listeners are called only in a step that takes
\* drawerState from close or initialClose to open, the onClose listeners
\* only in a step that takes it from open to close, every change of
\* drawerState calls the listeners, and the notifications alternate,
\* beginning with onOpen.
C31_ListenersOnlyOnStateChange ==
  [][/\ Notifies("onOpen") =>
          /\ drawerState \in {"close", "initialClose"}
          /\ drawerState' = "open"
     /\ Notifies("onClose") =>
          /\ drawerState = "open"
          /\ drawerState' = "close"
     /\ drawerState' # drawerState => (Notifies("onOpen") \/ Notifies("onClose"))
     /\ notified' # notified => (Notifies("onOpen") \/ Notifies("onClose"))
     /\ \A i \in DOMAIN notified' :
          notified'[i] = IF i % 2 = 1 THEN "onOpen" ELSE "onClose"]_vars

\* The drawer was opened and closed twice.
C31_Witness ==
  /\ notified = <<"onOpen", "onClose", "onOpen", "onClose">>
  /\ drawerState = "close"

\* C36: drawerState becomes close only at a height within
\* heightDiffThreshold of maxDrawerHeight, and open only at a height within
\* heightDiffThreshold of 0; at any other height neither drawerState nor the
\* listeners are touched.
C36_StateChangesOnlyAtTheEnds ==
  [][(drawerState' # drawerState \/ notified' # notified) =>
       /\ drawerState' = "close" =>
            Abs(currentHeight - maxDrawerHeight) <= heightDiffThreshold
       /\ drawerState' = "open" => Abs(currentHeight) <= heightDiffThreshold]_vars

(* ============================ useLocation ============================= *)

\* C32: a call of requestLocationPermission opens the Settings app exactly
\* when an earlier in-app request of the hook returned granted = false with
\* canAskAgain = false; every other call issues the in-app request, Settings
\* is opened by nothing else, and the result of an in-app request becomes
\* the permission status.
C32_SettingsOnlyAfterRefusal ==
  [][/\ requestCalls' = requestCalls + 1 =>
          IF everRefused
          THEN /\ settingsOpened' = settingsOpened + 1
               /\ pendingRequests' = pendingRequests
          ELSE /\ settingsOpened' = settingsOpened
               /\ pendingRequests' = pendingRequests + 1
     /\ settingsOpened' # settingsOpened => requestCalls' = requestCalls + 1
     /\ pendingRequests' = pendingRequests - 1 =>
          /\ permissionStatus' \in PermissionResponses
          /\ everRefused' =
               (everRefused \/ (~permissionStatus'.granted
                                /\ ~permissionStatus'.canAskAgain))]_vars

\* The first call asked in the app and was refused for good, the second
\* opened Settings.
C32_Witness ==
  /\ requestCalls = 2
  /\ settingsOpened = 1
  /\ pendingRequests = 0
  /\ everRefused
  /\ permissionStatus = PermissionResponse(FALSE, FALSE)

\* C33: once the hook is unsubscribed from location updates or unmounted, no
\* subscription that one of its effect runs started is active.
C33_NoSubscriptionAfterUnsubscribe ==
  (~isSubscribeToLocationUpdates \/ ~mounted) =>
    \A i \in DOMAIN effects : effects[i].watch # "active"

(* ============== AuthSocket: the credential of the connection ========== *)

\* C34: whenever a call issues its emit on a socket that has been
\* connected, the connection was opened with the credential the socket
\* holds at that moment.
C34_EmitOnCurrentCredential ==
  [][\A p \in Callers :
       (IssuesEmit(p) /\ connState' # "disconnected") =>
         connToken' = authToken']_vars

\* C35: every call that has entered authConnect or authEmit while
\* authenticated eventually ends, with its connect or emit issued or with an
\* error thrown.
C35_EveryCallEnds ==
  \A p \in Callers :
    (caller[p].pc \notin {"idle", "done"}) ~> (caller[p].pc = "done")
====
